---- MODULE Spec2Model ----
(***************************************************************************)
(* Model of align-cli's projection and rendering code:                     *)
(*   - generate_annotations  (src/src/generate_annotations.rs)             *)
(*   - CombinedLines, the line writer (src/src/render.rs)                  *)
(*   - show_alignment_inner and its header closure (src/src/render.rs)     *)
(*   - the REGIONS computation of the chained renderer (src/src/render.rs) *)
(*   - table in CSV mode (src/src/render.rs)                               *)
(*   - number_length (src/src/stats.rs)                                    *)
(* Each part has its own specification over the shared variables.         *)
(***************************************************************************)
EXTENDS Integers, Sequences, FiniteSets, TLC

VARIABLES
    \* ---- generate_annotations ----
    alignments,   \* the input: per segment start_a, start_b, regions, annotations
    a_regions,    \* the reversed combined boundary queue
    index_a, index_b, len_a, len_b, offset_a,
    last_region, last_index,
    regions,      \* output: <<name, length>> entries
    annotations,  \* output: <<name, query position>> entries
    seg,          \* iterator: the segment whose pieces are being yielded (1-based)
    lead_done,    \* iterator: the segment's optional leading piece has been passed
    nsteps,       \* iterator: real pieces yielded for the current segment
    piece,        \* the piece processed last (its match type and steps)
    total_b,      \* sum of step_b over every piece processed so far
    events,       \* how each boundary was resolved, in order
    local,        \* iterator: what the current segment's pieces consumed so
                  \* far, and index_b and the annotation count at its start
    pc,
    inl,          \* the region computation written out in
                  \* show_chained_annotated_mass_alignment, fed the same pieces
    \* ---- CombinedLines ----
    writer,       \* the CombinedLines value
    printed,      \* what flush has printed, one record per flush
    ncols,        \* columns handed to add_column so far
    wpc,
    \* ---- show_alignment_inner ----
    shown,        \* the input: alignment (start, path), allele regions, options
    inner,        \* the running call: a, b, number_tail, is_number,
                  \* number_shift_back, last_region, the loop index, the phase
    ruler,        \* every ruler column written so far, with the step's region
                  \* and whether the ruler character is written dimmed
    labels,       \* every label started so far, with the column it starts in
    hdr,          \* what the last evaluation of the header closure did
    chain,        \* chained rendering: the segments still to be shown, the
                  \* context option and the number of the running segment
    \* ---- table ----
    tbl,          \* the number of rows of the data, the rows printed so far,
                  \* the row printed last and the line printed for it
    \* ---- number_length ----
    nl            \* the argument, and the result once the call has returned

gaVars == <<alignments, a_regions, index_a, index_b, len_a, len_b, offset_a,
            last_region, last_index, regions, annotations, seg, lead_done,
            nsteps, piece, total_b, events, local, pc, inl>>

clVars == <<writer, printed, ncols, wpc>>

rdVars == <<shown, inner, ruler, labels, hdr, chain>>

tbVars == <<tbl, nl>>

vars == <<gaVars, clVars, rdVars, tbVars>>

\* ------------------------------------------------------------------ bounds
MaxSegs == 2        \* segments in a chained input
MaxNumber == 10000  \* the largest argument of number_length
TickMatches == 10   \* one-to-one steps before a run of insertions
TickRun == 4        \* insertions in a run
MaxMarkerPath == 3  \* steps of a path whose markers are compared
DupStartA == 2      \* start_a of a segment whose annotations are counted
DupAnnPos == 4      \* reference position of such an annotation
MaxPath == 2        \* pieces in one segment's path
MaxRegions == 2     \* regions of one allele
MaxBoundaries == 3  \* entries of the combined boundary queue
MaxRegionLen == 2   \* length of one region
MaxStartA == 1      \* start_a of an alignment
MaxLeadB == 1       \* start_b of an alignment, region inputs
MaxStartB == 3      \* start_b of an alignment, annotation inputs
MaxAnnotations == 2 \* annotations of one allele
MaxAnnPos == 3      \* largest annotated reference position
MaxWidth == 3       \* line_width of the writer
MaxColumns == 6     \* columns written to the writer
MaxRenderPath == 10 \* pieces in a rendered path
NameSegs == 3       \* segments of a chain with nameless boundaries
MaxChainSegs == 2   \* segments of a chained report
MaxChainPath == 2   \* pieces in the path of a chained segment
MaxRows == 2        \* rows of a table
MaxCellLen == 2     \* characters of a table cell

\* ------------------------------------------------------------------ helpers
None == "None"
Unknown == "Unknown"
RegionNames == {"FR1", "CDR1"}

Last(s) == s[Len(s)]
Front(s) == SubSeq(s, 1, Len(s) - 1)
Reverse(s) == [i \in 1..Len(s) |-> s[Len(s) + 1 - i]]

RECURSIVE Concat(_)
Concat(ss) == IF ss = <<>> THEN <<>> ELSE Head(ss) \o Concat(Tail(ss))

RECURSIVE SumLengths(_)
SumLengths(rs) == IF rs = <<>> THEN 0 ELSE Head(rs)[2] + SumLengths(Tail(rs))

SeqsUpTo(S, n) == UNION {[1..k -> S] : k \in 0..n}

\* Mutation: a mismatch counts as identity.
IsIdentity_WithMismatch(match_type) ==
    match_type \in {"FullIdentity", "IdentityMassMismatch", "Mismatch"}

\* matches!(match_type, FullIdentity | IdentityMassMismatch)
IsIdentity(match_type) == match_type \in {"FullIdentity", "IdentityMassMismatch"}

\* ------------------------------------------------------ generate_annotations
\* The boundary entries one segment contributes: an optional nameless leading
\* entry of length start_a, then the allele's own regions.
\* The third component of an entry records the segment that contributed it;
\* the code never reads it.
SegmentBoundaries(al, i) ==
    (IF al.start_b # 0 THEN <<<<None, al.start_a, i>>>> ELSE <<>>)
    \o [j \in 1..Len(al.regions) |-> <<al.regions[j][1], al.regions[j][2], i>>]

BuildARegions(als) ==
    Reverse(Concat([i \in 1..Len(als) |-> SegmentBoundaries(als[i], i)]))

\* The synthetic leading piece of a segment whose start_b is not 0.
LeadingPiece(al) ==
    [match_type |-> "FullIdentity", step_a |-> al.start_a, step_b |-> al.start_b]

\* r.clone().or(last_region).unwrap_or(Region::Other("Unknown"))
ResolveRegion(r, last) ==
    IF r # None THEN r ELSE IF last # None THEN last ELSE Unknown

\* Mutation: every resolved boundary appends an entry.
MergeOrPush_AlwaysPush(rs, region, len) == Append(rs, <<region, len>>)

\* Extend the last entry when it carries the same name, else append.
MergeOrPush(rs, region, len) ==
    IF rs # <<>> /\ Last(rs)[1] = region
    THEN Front(rs) \o <<<<region, Last(rs)[2] + len>>>>
    ELSE Append(rs, <<region, len>>)

\* The boundary at the end of the queue is due once its length fits in len_a.
BoundaryDue(queue, la) == queue # <<>> /\ Last(queue)[2] <= la

\* The annotations of one segment a piece transfers, in table order.
MatchedAnnotations(table, local_a, step_a, query_pos) ==
    LET hit == [i \in 1..Len(table) |-> local_a + step_a = table[i][2]]
        F[i \in 0..Len(table)] ==
            IF i = 0 THEN <<>>
            ELSE IF hit[i] THEN Append(F[i - 1], <<table[i][1], query_pos>>)
                 ELSE F[i - 1]
    IN F[Len(table)]

TransferAnnotations(path, table, local_a, query_pos) ==
    IF IsIdentity(path.match_type)
    THEN MatchedAnnotations(table, local_a, path.step_a, query_pos)
    ELSE <<>>

\* Mutation: offset_a is never set again.
SegmentOffset_NeverReset(index) == offset_a

\* if last_index != Some(index) { last_index = Some(index); offset_a = index_a; }
SegmentOffset(index) == IF last_index # index THEN index_a ELSE offset_a

\* The pieces of the current segment yielded so far, p included.
Consumed(p) ==
    [local EXCEPT !.a = @ + p.step_a, !.b = @ + p.step_b]

\* One turn of the loop over the flattened (index, piece) iterator.
ProcessPiece(index, path) ==
    LET off == SegmentOffset(index)
        ia == index_a + path.step_a
        ib == index_b + path.step_b
        la == len_a + path.step_a
        lb == len_b + path.step_b
        due == BoundaryDue(a_regions, la)
        r == Last(a_regions)[1]
        l == Last(a_regions)[2]
        region == ResolveRegion(r, last_region)
    IN  /\ last_index' = index
        /\ offset_a' = off
        /\ index_a' = ia
        /\ index_b' = ib
        /\ IF due
           THEN /\ regions' = MergeOrPush(regions, region, lb)
                /\ last_region' = r
                /\ a_regions' = Front(a_regions)
                /\ len_a' = la - l
                /\ len_b' = 0
                /\ events' = Append(events,
                      [name |-> r, region |-> region, len |-> lb, walking |-> index,
                       owner |-> Last(a_regions)[3]])
           ELSE /\ len_a' = la
                /\ len_b' = lb
                /\ UNCHANGED <<regions, last_region, a_regions, events>>
        /\ annotations' = annotations \o
               TransferAnnotations(path, alignments[index].annotations,
                                   ia - off, ib + path.step_b)
        /\ piece' = path
        /\ total_b' = total_b + path.step_b

LeadPending == alignments[seg].start_b # 0 /\ ~lead_done

\* ------------------------------- REGIONS of show_chained_annotated_mass_alignment
\* The region computation the chained renderer carries out itself before it
\* prints the REGIONS= line.  It runs over the same segments, so the model
\* feeds it every piece the iterator of generate_annotations yields.
InlineBoundaries(al) ==
    (IF al.start_b # 0 THEN <<<<None, al.start_a>>>> ELSE <<>>)
    \o [j \in 1..Len(al.regions) |-> <<al.regions[j][1], al.regions[j][2]>>]

InlineARegions(als) ==
    Reverse(Concat([i \in 1..Len(als) |-> InlineBoundaries(als[i])]))

InlineLeadingPiece(al) ==
    [match_type |-> "FullIdentity", step_a |-> al.start_a, step_b |-> al.start_b]

\* Mutation: the last entry is never extended.
InlinePush_AlwaysPush(rs, r, last, len) ==
    Append(rs, <<IF r # None THEN r ELSE IF last # None THEN last ELSE Unknown,
                 len>>)

\* Resolve the boundary's name and extend the last entry or append a new one.
InlinePush(rs, r, last, len) ==
    LET region == IF r # None THEN r ELSE IF last # None THEN last ELSE Unknown
    IN  IF rs # <<>> /\ rs[Len(rs)][1] = region
        THEN [rs EXCEPT ![Len(rs)] = <<region, @[2] + len>>]
        ELSE Append(rs, <<region, len>>)

\* One turn of the loop over the flattened pieces.
InlinePiece(s, path) ==
    LET la == s.len_a + path.step_a
        lb == s.len_b + path.step_b
    IN  IF s.a_regions # <<>> /\ Last(s.a_regions)[2] <= la
        THEN [a_regions |-> Front(s.a_regions),
              len_a |-> la - Last(s.a_regions)[2],
              len_b |-> 0,
              last_region |-> Last(s.a_regions)[1],
              regions |-> InlinePush(s.regions, Last(s.a_regions)[1],
                                     s.last_region, lb)]
        ELSE [s EXCEPT !.len_a = la, !.len_b = lb]

\* After the loop: map the remaining piece to the last element.
InlineFinish(s) ==
    IF s.a_regions # <<>>
    THEN [s EXCEPT !.regions = InlinePush(s.regions, Last(s.a_regions)[1],
                                          s.last_region, s.len_b)]
    ELSE s

InlineInit(als) ==
    [a_regions |-> InlineARegions(als), len_a |-> 0, len_b |-> 0,
     last_region |-> None, regions |-> <<>>]

\* The iterator yields the synthetic leading piece of the current segment.
GALead ==
    /\ pc = "walk"
    /\ LeadPending
    /\ ProcessPiece(seg, LeadingPiece(alignments[seg]))
    /\ local' = Consumed(LeadingPiece(alignments[seg]))
    /\ inl' = InlinePiece(inl, InlineLeadingPiece(alignments[seg]))
    /\ lead_done' = TRUE
    /\ UNCHANGED <<alignments, seg, nsteps, pc, clVars, rdVars, tbVars>>

\* The iterator yields the next piece of the current segment's path.
GAPiece(p) ==
    /\ pc = "walk"
    /\ ~LeadPending
    /\ nsteps < MaxPath
    /\ ProcessPiece(seg, p)
    /\ local' = Consumed(p)
    /\ inl' = InlinePiece(inl, p)
    /\ nsteps' = nsteps + 1
    /\ UNCHANGED <<alignments, seg, lead_done, pc, clVars, rdVars, tbVars>>

\* The current segment's path is exhausted; the iterator moves on.
GANextSegment ==
    /\ pc = "walk"
    /\ ~LeadPending
    /\ seg < Len(alignments)
    /\ seg' = seg + 1
    /\ lead_done' = FALSE
    /\ nsteps' = 0
    /\ local' = [a |-> 0, b |-> 0, base_b |-> index_b,
                 base_n |-> Len(annotations)]
    /\ UNCHANGED <<alignments, a_regions, index_a, index_b, len_a, len_b,
                   offset_a, last_region, last_index, regions, annotations,
                   piece, total_b, events, pc, inl, clVars, rdVars, tbVars>>

\* After the loop: map the remaining piece to the last element.
GAFinish ==
    /\ pc = "walk"
    /\ ~LeadPending
    /\ seg = Len(alignments)
    /\ IF a_regions # <<>>
       THEN LET r == Last(a_regions)[1]
                region == ResolveRegion(r, last_region)
            IN /\ regions' = MergeOrPush(regions, region, len_b)
               /\ events' = Append(events,
                      [name |-> r, region |-> region, len |-> len_b, walking |-> 0,
                       owner |-> Last(a_regions)[3]])
       ELSE UNCHANGED <<regions, events>>
    /\ pc' = "done"
    /\ inl' = InlineFinish(inl)
    /\ UNCHANGED <<alignments, a_regions, index_a, index_b, len_a, len_b,
                   offset_a, last_region, last_index, annotations, seg,
                   lead_done, nsteps, piece, total_b, local, clVars, rdVars, tbVars>>

\* ------------------------------------------------------------ CombinedLines
\* Track buffers are sequences of one-character strings; colours and styles
\* do not influence what is printed where and are left out.
IsWhitespace(ch) == ch = " "
HasContent(text) == \E i \in 1..Len(text) : ~IsWhitespace(text[i])
Spaces(n) == [i \in 1..n |-> " "]

NewWriter(line_width, only_display_a, omit_headers) ==
    [numbers |-> <<>>, a |-> <<>>, a_content |-> FALSE,
     b |-> <<>>, b_content |-> FALSE,
     marker |-> <<>>, marker_content |-> FALSE,
     chars |-> 0, lines |-> 0, line_width |-> line_width,
     only_display_a |-> only_display_a, omit_headers |-> omit_headers,
     a_names |-> {}]

\* The tracks flush prints for the buffered block, in printing order.
FlushedTracks(w) ==
    (IF ~w.omit_headers THEN <<"ruler">> ELSE <<>>)
    \o (IF w.a_content THEN <<"reference">> ELSE <<>>)
    \o (IF ~w.only_display_a /\ w.b_content THEN <<"query">> ELSE <<>>)
    \o (IF ~w.only_display_a /\ w.marker_content THEN <<"marker">> ELSE <<>>)

\* Padding between a sequence line and its name, on every block but the first.
FlushPadding(w) == IF w.lines > 0 THEN w.line_width - w.chars ELSE 0

TrackText(w, track) ==
    CASE track = "ruler" -> w.numbers
      [] track = "reference" -> w.a
      [] track = "query" -> w.b
      [] track = "marker" -> w.marker

\* One record per flush: the columns of the block, the tracks printed, and
\* the tracks whose buffer held a non-whitespace character.
FlushRecord(w) ==
    [cols |-> w.chars,
     tracks |-> FlushedTracks(w),
     content |-> {t \in {"ruler", "reference", "query", "marker"} :
                     HasContent(TrackText(w, t))},
     padding |-> FlushPadding(w),
     names |-> w.a_names]

FlushReset(w) ==
    [w EXCEPT !.numbers = <<>>, !.a = <<>>, !.b = <<>>, !.marker = <<>>,
              !.a_content = FALSE, !.b_content = FALSE,
              !.marker_content = FALSE, !.chars = 0, !.lines = @ + 1,
              !.a_names = {}]

\* flush on the pair (writer, printed output).
Flush(wp) == [w |-> FlushReset(wp.w), out |-> Append(wp.out, FlushRecord(wp.w))]

Buffered(w, col) ==
    [w EXCEPT !.numbers = Append(@, col.n),
              !.a = Append(@, col.a),
              !.a_content = @ \/ ~IsWhitespace(col.a),
              !.b = Append(@, col.b),
              !.b_content = @ \/ ~IsWhitespace(col.b),
              !.marker = Append(@, col.c),
              !.marker_content = @ \/ ~IsWhitespace(col.c),
              !.chars = @ + 1,
              !.a_names = IF col.a_name # "" THEN @ \cup {col.a_name} ELSE @]

\* Mutation: the block is flushed one column late.
LineFull_Late(w) == w.chars > w.line_width

\* Flush if the maximal number of chars is reached.
LineFull(w) == w.chars % w.line_width = 0

\* add_column on the pair (writer, printed output).
AddColumn(wp, col) ==
    LET w1 == Buffered(wp.w, col)
    IN IF LineFull(w1) THEN Flush([w |-> w1, out |-> wp.out])
       ELSE [w |-> w1, out |-> wp.out]

RECURSIVE AddColumns(_, _)
AddColumns(wp, cols) ==
    IF cols = <<>> THEN wp ELSE AddColumns(AddColumn(wp, Head(cols)), Tail(cols))

\* A caller writes one column.
CLAddColumn(col) ==
    /\ wpc = "writing"
    /\ ncols < MaxColumns
    /\ LET wp == AddColumn([w |-> writer, out |-> printed], col)
       IN writer' = wp.w /\ printed' = wp.out
    /\ ncols' = ncols + 1
    /\ UNCHANGED <<wpc, gaVars, rdVars, tbVars>>

\* The show_* functions end with writer.flush().
CLFinalFlush ==
    /\ wpc = "writing"
    /\ LET wp == Flush([w |-> writer, out |-> printed])
       IN writer' = wp.w /\ printed' = wp.out
    /\ wpc' = "done"
    /\ UNCHANGED <<ncols, gaVars, rdVars, tbVars>>

\* ------------------------------------------------------ show_alignment_inner
NUMBER_GAP == 10

\* Display of a region, as characters.
NameChars(name) ==
    CASE name = "FR1" -> <<"F", "R", "1">>
      [] name = "CDR1" -> <<"C", "D", "R", "1">>
      [] name = "FR2" -> <<"F", "R", "2">>
      [] name = "CDR3" -> <<"C", "D", "R", "3">>
      [] name = "FR4" -> <<"F", "R", "4">>

DigitChar(d) == <<"0", "1", "2", "3", "4", "5", "6", "7", "8", "9">>[d + 1]

\* usize::to_string
RECURSIVE UsizeToString(_)
UsizeToString(n) ==
    IF n < 10 THEN <<DigitChar(n)>>
    ELSE UsizeToString(n \div 10) \o <<DigitChar(n % 10)>>

\* Mutation: the reference step alone.
Max_First(x, y) == x

Max(x, y) == IF x >= y THEN x ELSE y
SaturatingSub(x, y) == IF x >= y THEN x - y ELSE 0

NoRegion == <<None, FALSE>>

\* AnnotatedPeptide::get_region of the rustyms library, which is not part of
\* the repository: index counts the residues from 1; the result is the region
\* holding that residue and a flag; no region beyond the last one. The
\* library raises the flag on the first residue of a region, its description
\* in the specification on the last one: marks selects between the two, and
\* every rendering property is checked for both.
RECURSIVE GetRegionFrom(_, _, _, _)
GetRegionFrom(table, marks, k, left) ==
    IF left > table[k][2]
    THEN IF k = Len(table) THEN NoRegion
         ELSE GetRegionFrom(table, marks, k + 1, left - table[k][2])
    ELSE <<table[k][1],
           IF marks = "first" THEN left = 1 ELSE left = table[k][2]>>

\* An alignment without allele (imgt = None).
NoAllele == [table |-> <<>>, marks |-> "first"]

\* imgt.and_then(|imgt| imgt.get_region(index)); no allele has no regions.
GetRegion(imgt, index) ==
    IF imgt = NoAllele THEN NoRegion
    ELSE GetRegionFrom(imgt.table, imgt.marks, 1, index)

\* format!("{} ", region).chars().rev().collect(): the label is stored
\* reversed and consumed by pop(), one character per column.
RegionLabel_NotReversed(name) == NameChars(name) \o <<" ">>
RegionLabel(name) == Reverse(NameChars(name) \o <<" ">>)

\* Compress the region from CDR3 to 3 or C3 depending on how much room is left.
CompressedLabel(tail, len) ==
    IF len <= 1 THEN <<" ", tail[2]>>
    ELSE IF len <= 4 THEN <<" ", tail[2], Last(tail)>>
    ELSE tail

\* Mutation: the tick is not padded.
NumberLabel_NoPadding(value, full_width) == Reverse(UsizeToString(value))

\* The numeric tick, padded on the left by full_width - (digits - 1) spaces,
\* stored reversed.
NumberLabel(value, full_width) ==
    Reverse(Spaces(SaturatingSub(full_width, Len(UsizeToString(value)) - 1))
            \o UsizeToString(value))

\* The header closure with a tick that does not look at number_tail.
Header_TickIgnoresLabel(h, imgt, override, a, len, full_width, step, room_on_end, skip_first) ==
    LET region == GetRegion(imgt, a + step)
        due == /\ region # NoRegion
               /\ region[2]
               /\ h.number_tail = <<>>
               /\ h.last_region # region[1]
               /\ ~(skip_first /\ h.last_region = override)
        compress == ~room_on_end /\ len = full_width
        label == IF compress THEN CompressedLabel(RegionLabel(region[1]), len)
                 ELSE RegionLabel(region[1])
        h1 == IF due
              THEN [h EXCEPT !.number_tail = label,
                             !.last_region = region[1],
                             !.is_number = FALSE]
              ELSE h
        tick_cond == (a + h.number_shift_back) % NUMBER_GAP = 0
        tick == tick_cond
        h2 == IF tick
              THEN [h1 EXCEPT
                      !.number_tail =
                          NumberLabel(a + h.number_shift_back, full_width),
                      !.number_shift_back =
                          Len(UsizeToString(a + NUMBER_GAP + h.number_shift_back)),
                      !.is_number = TRUE]
              ELSE h1
    IN [h |-> h2,
        did |-> [region_started |-> due, tick_cond |-> tick_cond,
                 tick_started |-> tick,
                 region |-> IF due THEN region[1] ELSE None,
                 compressed |-> due /\ compress /\ len <= 4,
                 same_region |-> /\ region # NoRegion
                                 /\ region[2]
                                 /\ h.number_tail = <<>>
                                 /\ h.last_region = region[1],
                 value |-> IF tick THEN a + h.number_shift_back ELSE 0]]

\* Mutation: a region label is started whatever the label buffer holds.
Header_LabelWhileBusy(h, imgt, override, a, len, full_width, step, room_on_end, skip_first) ==
    LET region == GetRegion(imgt, a + step)
        due == /\ region # NoRegion
               /\ region[2]
               /\ h.last_region # region[1]
               /\ ~(skip_first /\ h.last_region = override)
        compress == ~room_on_end /\ len = full_width
        label == IF compress THEN CompressedLabel(RegionLabel(region[1]), len)
                 ELSE RegionLabel(region[1])
        h1 == IF due
              THEN [h EXCEPT !.number_tail = label,
                             !.last_region = region[1],
                             !.is_number = FALSE]
              ELSE h
        tick_cond == (a + h.number_shift_back) % NUMBER_GAP = 0
        tick == tick_cond /\ h1.number_tail = <<>>
        h2 == IF tick
              THEN [h1 EXCEPT
                      !.number_tail =
                          NumberLabel(a + h.number_shift_back, full_width),
                      !.number_shift_back =
                          Len(UsizeToString(a + NUMBER_GAP + h.number_shift_back)),
                      !.is_number = TRUE]
              ELSE h1
    IN [h |-> h2,
        did |-> [region_started |-> due, tick_cond |-> tick_cond,
                 tick_started |-> tick,
                 region |-> IF due THEN region[1] ELSE None,
                 compressed |-> due /\ compress /\ len <= 4,
                 same_region |-> /\ region # NoRegion
                                 /\ region[2]
                                 /\ h.number_tail = <<>>
                                 /\ h.last_region = region[1],
                 value |-> IF tick THEN a + h.number_shift_back ELSE 0]]

\* The header closure. h holds number_tail, is_number, number_shift_back and
\* the captured last_region; the result adds what the evaluation did.
Header(h, imgt, override, a, len, full_width, step, room_on_end, skip_first) ==
    LET region == GetRegion(imgt, a + step)
        due == /\ region # NoRegion
               /\ region[2]
               /\ h.number_tail = <<>>
               /\ h.last_region # region[1]
               /\ ~(skip_first /\ h.last_region = override)
        compress == ~room_on_end /\ len = full_width
        label == IF compress THEN CompressedLabel(RegionLabel(region[1]), len)
                 ELSE RegionLabel(region[1])
        h1 == IF due
              THEN [h EXCEPT !.number_tail = label,
                             !.last_region = region[1],
                             !.is_number = FALSE]
              ELSE h
        tick_cond == (a + h.number_shift_back) % NUMBER_GAP = 0
        tick == tick_cond /\ h1.number_tail = <<>>
        h2 == IF tick
              THEN [h1 EXCEPT
                      !.number_tail =
                          NumberLabel(a + h.number_shift_back, full_width),
                      !.number_shift_back =
                          Len(UsizeToString(a + NUMBER_GAP + h.number_shift_back)),
                      !.is_number = TRUE]
              ELSE h1
    IN [h |-> h2,
        did |-> [region_started |-> due, tick_cond |-> tick_cond,
                 tick_started |-> tick,
                 region |-> IF due THEN region[1] ELSE None,
                 compressed |-> due /\ compress /\ len <= 4,
                 same_region |-> /\ region # NoRegion
                                 /\ region[2]
                                 /\ h.number_tail = <<>>
                                 /\ h.last_region = region[1],
                 value |-> IF tick THEN a + h.number_shift_back ELSE 0]]

\* The kind of a step, by match type first and step sizes second.
StepType(step) ==
    CASE step.match_type = "Isobaric" -> "Special"
      [] step.match_type = "FullIdentity" -> "Match"
      [] step.match_type = "IdentityMassMismatch" -> "MassMismatch"
      [] step.match_type = "Mismatch" -> "Mismatch"
      [] OTHER -> IF step.step_a = 0 /\ step.step_b = 1 THEN "Insertion"
                  ELSE IF step.step_a = 1 /\ step.step_b = 0 THEN "Deletion"
                  ELSE "Special"

\* Mutation: a mass mismatch is shown as a match.
MarkerChar_MassAsMatch(ty) ==
    CASE ty = "Insertion" -> "+"
      [] ty = "Deletion" -> "+"
      [] ty = "Match" -> " "
      [] ty = "MassMismatch" -> " "
      [] ty = "Mismatch" -> "x"
      [] ty = "Special" -> "-"

\* The marker of a step kind: "x" stands for the mismatch cross.
MarkerChar(ty) ==
    CASE ty = "Insertion" -> "+"
      [] ty = "Deletion" -> "+"
      [] ty = "Match" -> " "
      [] ty = "MassMismatch" -> "m"
      [] ty = "Mismatch" -> "x"
      [] ty = "Special" -> "-"

Repeat(ch, n) == [i \in 1..n |-> ch]

\* The marker track of one step: "~", "<" and ">" stand for the line drawing
\* characters of a special step.
Bottom(ty, len) ==
    IF ty = "Special"
    THEN IF len = 1 THEN <<"~">>
         ELSE IF len = 2 THEN <<"<", ">">>
         ELSE <<"<">> \o Repeat("~", len - 2) \o <<">">>
    ELSE Repeat(MarkerChar(ty), len)

\* A sequence track of one step: a gap sign for a step of 0 residues, else the
\* residues (shown as ch) padded to len with the filler ".".
SequenceStr(n, len, ch) ==
    IF n = 0 THEN Repeat("-", len)
    ELSE Repeat(ch, n) \o Repeat(".", len - n)

\* Sum of step_a over path[index..].
RECURSIVE RemainingA(_, _)
RemainingA(path, index) ==
    IF index > Len(path) THEN 0
    ELSE path[index].step_a + RemainingA(path, index + 1)

\* The take_while sum of column widths handed to header as full_width.
RECURSIVE FullWidth(_, _, _, _)
FullWidth(path, index, state, number_shift_back) ==
    IF index > Len(path) THEN 0
    ELSE IF state + path[index].step_a < number_shift_back
         THEN Max(path[index].step_a, path[index].step_b)
              + FullWidth(path, index + 1, state + path[index].step_a,
                          number_shift_back)
         ELSE 0

\* Mutation: the characters are taken from the front of the stored text.
PoppedChar_FromFront(tail, s) == IF s <= Len(tail) THEN tail[s] ELSE " "

\* number_tail.pop().unwrap_or(' ') for the next len columns.
PoppedChar(tail, s) == IF s <= Len(tail) THEN tail[Len(tail) + 1 - s] ELSE " "
AfterPops(tail, len) ==
    IF len >= Len(tail) THEN <<>> ELSE SubSeq(tail, 1, Len(tail) - len)

HeaderState(st) ==
    [number_tail |-> st.number_tail, is_number |-> st.is_number,
     number_shift_back |-> st.number_shift_back, last_region |-> st.last_region]

\* Legend for Region (legend.rs): the colours of a region, None for no colour.
FgColor(region) == IF region \in {"CDR1", "CDR2", "CDR3"} THEN "Black" ELSE None

BgColor(region) ==
    CASE region = "CDR1" -> "Red"
      [] region = "CDR2" -> "Green"
      [] region = "CDR3" -> "Blue"
      [] OTHER -> None

\* One turn of the loop over the path: the header, then len columns.
RBodyStep ==
    /\ inner.phase = "body"
    /\ inner.index <= Len(shown.path)
    /\ LET step == shown.path[inner.index]
           ty == StepType(step)
           region == GetRegion(shown.imgt, inner.a + step.step_a)
           len == Max(step.step_a, step.step_b)
           res == Header(HeaderState(inner), shown.imgt, inner.override, inner.a,
                         RemainingA(shown.path, inner.index),
                         FullWidth(shown.path, inner.index, 0,
                                   inner.number_shift_back),
                         step.step_a, shown.room_on_end, FALSE)
           a_str == SequenceStr(step.step_a, len, "a")
           b_str == SequenceStr(step.step_b, len, "b")
           bottom == Bottom(ty, len)
           cols == [s \in 1..len |->
                      [a_name |-> "ref", n |-> PoppedChar(res.h.number_tail, s),
                       a |-> a_str[s], b |-> b_str[s], c |-> bottom[s]]]
           wp == AddColumns([w |-> writer, out |-> printed], cols)
       IN /\ writer' = wp.w
          /\ printed' = wp.out
          /\ ncols' = ncols + len
          /\ inner' = [inner EXCEPT
                          !.number_tail = AfterPops(res.h.number_tail, len),
                          !.is_number = res.h.is_number,
                          !.number_shift_back = res.h.number_shift_back,
                          !.last_region = res.h.last_region,
                          !.a = @ + step.step_a,
                          !.b = @ + step.step_b,
                          !.index = @ + 1]
          /\ ruler' = ruler \o
                 [s \in 1..len |->
                    [ch |-> cols[s].n, region |-> region[1],
                     step |-> inner.index, marker |-> cols[s].c,
                     part |-> "body", seg |-> chain.k,
                     dimmed |-> res.h.is_number,
                     fg |-> FgColor(region[1]), bg |-> BgColor(region[1])]]
          /\ labels' =
                 IF res.did.region_started \/ res.did.tick_started
                 THEN Append(labels,
                        [kind |-> IF res.did.region_started THEN "region"
                                  ELSE "number",
                         name |-> res.did.region,
                         value |-> res.did.value,
                         compressed |-> res.did.compressed,
                         text |-> Reverse(res.h.number_tail),
                         remaining |-> RemainingA(shown.path, inner.index),
                         col |-> Len(ruler) + 1,
                         step |-> inner.index,
                         part |-> "body", seg |-> chain.k])
                 ELSE labels
          /\ hdr' = res.did
    /\ UNCHANGED <<shown, chain, wpc, gaVars, tbVars>>

\* let prefix = alignment.start_a().max(alignment.start_b());
Prefix(input) == Max(input.start_a, input.start_b)

\* let len = (seq_a.len() - a).max(seq_b.len() - b), once the path is walked:
\* tail_a and tail_b are the residues behind the aligned part.
EndLen(input) == Max(input.tail_a, input.tail_b)

\* The header and the one column of a context position; a_index and b_index
\* are -1 for None.
ContextColumn(part, a_index, b_index, len, skip_first, dimmed, colour, a_name) ==
    LET res == Header(HeaderState(inner), shown.imgt, inner.override,
                      IF a_index < 0 THEN 0 ELSE a_index,
                      len, 0, 1, shown.room_on_end, skip_first)
        col == [a_name |-> a_name, n |-> PoppedChar(res.h.number_tail, 1),
                a |-> IF a_index < 0 THEN " " ELSE "a",
                b |-> IF b_index < 0 THEN " " ELSE "b", c |-> " "]
        wp == AddColumn([w |-> writer, out |-> printed], col)
    IN /\ writer' = wp.w
       /\ printed' = wp.out
       /\ ncols' = ncols + 1
       /\ ruler' = Append(ruler,
              [ch |-> col.n, region |-> colour, step |-> 0, marker |-> col.c,
               part |-> part, seg |-> chain.k, dimmed |-> dimmed,
               fg |-> FgColor(colour), bg |-> BgColor(colour)])
       /\ labels' =
              IF res.did.region_started \/ res.did.tick_started
              THEN Append(labels,
                     [kind |-> IF res.did.region_started THEN "region"
                               ELSE "number",
                      name |-> res.did.region,
                      value |-> res.did.value,
                      compressed |-> res.did.compressed,
                      text |-> Reverse(res.h.number_tail),
                      remaining |-> len,
                      col |-> Len(ruler) + 1,
                      step |-> 0,
                      part |-> part, seg |-> chain.k])
              ELSE labels
       /\ hdr' = res.did
       /\ inner' = [inner EXCEPT
                       !.number_tail = AfterPops(res.h.number_tail, 1),
                       !.is_number = res.h.is_number,
                       !.number_shift_back = res.h.number_shift_back,
                       !.last_region = res.h.last_region,
                       !.cidx = IF part = "start" /\ @ + 1 = Prefix(shown)
                                THEN 0 ELSE @ + 1,
                       !.phase = IF part = "start" /\ inner.cidx + 1 = Prefix(shown)
                                 THEN "body" ELSE part]

\* Mutation: the start context is dimmed and uncoloured whatever the override.
RStartColumn_AlwaysDimmed ==
    /\ inner.phase = "start"
    /\ inner.cidx < Prefix(shown)
    /\ LET index == inner.cidx
           shift_a == Prefix(shown) - shown.start_a
           shift_b == Prefix(shown) - shown.start_b
           a_index == IF index >= shift_a THEN index - shift_a ELSE -1
           b_index == IF index >= shift_b THEN index - shift_b ELSE -1
       IN ContextColumn("start", a_index, b_index, Prefix(shown) - index,
                        inner.override # None, TRUE, None, "ref")
    /\ UNCHANGED <<shown, chain, wpc, gaVars, tbVars>>

\* One turn of the start context loop.
RStartColumn ==
    /\ inner.phase = "start"
    /\ inner.cidx < Prefix(shown)
    /\ LET index == inner.cidx
           shift_a == Prefix(shown) - shown.start_a
           shift_b == Prefix(shown) - shown.start_b
           a_index == IF index >= shift_a THEN index - shift_a ELSE -1
           b_index == IF index >= shift_b THEN index - shift_b ELSE -1
           overridden == inner.override # None
       IN ContextColumn("start", a_index, b_index, Prefix(shown) - index,
                        overridden, ~overridden, inner.override,
                        IF overridden THEN "" ELSE "ref")
    /\ UNCHANGED <<shown, chain, wpc, gaVars, tbVars>>

\* One turn of the end context loop.
REndColumn ==
    /\ shown.context
    /\ \/ inner.phase = "body" /\ inner.index > Len(shown.path)
       \/ inner.phase = "end"
    /\ inner.cidx < EndLen(shown)
    /\ LET index == inner.cidx
           a_index == IF index < shown.tail_a THEN inner.a + index ELSE -1
           b_index == IF index < shown.tail_b THEN inner.b + index ELSE -1
       IN ContextColumn("end", a_index, b_index, EndLen(shown) - index,
                        FALSE, TRUE, None, "ref")
    /\ UNCHANGED <<shown, chain, wpc, gaVars, tbVars>>

\* The path is exhausted and the end context, if any, is shown: the call
\* returns (number_tail, last_region).
RReturn ==
    /\ \/ inner.phase = "body" /\ inner.index > Len(shown.path)
       \/ inner.phase = "end"
    /\ shown.context => inner.cidx = EndLen(shown)
    /\ inner' = [inner EXCEPT !.phase = "returned"]
    /\ UNCHANGED <<shown, ruler, labels, hdr, chain, clVars, gaVars, tbVars>>

\* Entry of show_alignment_inner: the start context is shown with the
\* context option or with an override.
Entry(input, number_tail, override) ==
    [a |-> input.start_a, b |-> input.start_b,
     number_tail |-> number_tail, is_number |-> FALSE,
     number_shift_back |-> 1, last_region |-> override,
     override |-> override, index |-> 1, cidx |-> 0,
     phase |-> IF (input.context \/ override # None) /\ Prefix(input) > 0
               THEN "start" ELSE "body"]

\* The arguments of the call for one segment of a chain.
ChainCall(segment, is_last, context) ==
    [start_a |-> segment.start_a, start_b |-> segment.start_b,
     path |-> segment.path, imgt |-> segment.imgt,
     tail_a |-> segment.tail_a, tail_b |-> segment.tail_b,
     context |-> is_last /\ context, room_on_end |-> ~is_last]

\* Mutation: the next segment starts without the last region.
RChainNext_NoHandover ==
    /\ inner.phase = "returned"
    /\ chain.rest # <<>>
    /\ shown' = ChainCall(Head(chain.rest), Len(chain.rest) = 1, chain.context)
    /\ inner' = Entry(shown', inner.number_tail, None)
    /\ chain' = [chain EXCEPT !.rest = Tail(@), !.k = @ + 1]
    /\ UNCHANGED <<ruler, labels, hdr, clVars, gaVars, tbVars>>

\* The loop of show_chained_annotated_mass_alignment: the next segment is
\* shown with the returned (number_tail, last_context).
RChainNext ==
    /\ inner.phase = "returned"
    /\ chain.rest # <<>>
    /\ shown' = ChainCall(Head(chain.rest), Len(chain.rest) = 1, chain.context)
    /\ inner' = Entry(shown', inner.number_tail, inner.last_region)
    /\ chain' = [chain EXCEPT !.rest = Tail(@), !.k = @ + 1]
    /\ UNCHANGED <<ruler, labels, hdr, clVars, gaVars, tbVars>>

\* show_annotated_mass_alignment ends with writer.flush().
RFinalFlush ==
    /\ inner.phase = "returned"
    /\ chain.rest = <<>>
    /\ wpc = "writing"
    /\ LET wp == Flush([w |-> writer, out |-> printed])
       IN writer' = wp.w /\ printed' = wp.out
    /\ wpc' = "done"
    /\ UNCHANGED <<ncols, gaVars, rdVars, tbVars>>

NoHeader ==
    [region_started |-> FALSE, tick_cond |-> FALSE, tick_started |-> FALSE,
     region |-> None, compressed |-> FALSE, same_region |-> FALSE,
     value |-> 0]

\* Entry of show_alignment_inner for a single alignment: no override, no
\* room on the end, an empty number_tail.
RInit(input) ==
    /\ shown = input
    /\ inner = Entry(input, <<>>, None)
    /\ ruler = <<>>
    /\ labels = <<>>
    /\ hdr = NoHeader
    /\ chain = [rest |-> <<>>, context |-> input.context, k |-> 1]

\* Entry of show_chained_annotated_mass_alignment: the first segment is shown
\* with an empty number_tail and no last_context.
RChainInit(segments, context) ==
    /\ shown = ChainCall(Head(segments), Len(segments) = 1, context)
    /\ inner = Entry(shown, <<>>, None)
    /\ ruler = <<>>
    /\ labels = <<>>
    /\ hdr = NoHeader
    /\ chain = [rest |-> Tail(segments), context |-> context, k |-> 1]

\* -------------------------------------------------------------- table (CSV)
DoubleQuote == "\""
SingleQuote == "'"
Comma == ","

\* str::contains(',')
Contains(text, ch) == \E i \in 1..Len(text) : text[i] = ch

\* cell.replace('\"', "\'")
ReplaceQuotes(cell) ==
    [i \in 1..Len(cell) |-> IF cell[i] = DoubleQuote THEN SingleQuote ELSE cell[i]]

\* Mutation: the double quotes of a cell are kept.
DisplayCell_KeepQuotes(cell) ==
    IF Contains(cell, Comma) THEN <<DoubleQuote>> \o cell \o <<DoubleQuote>>
    ELSE cell

\* The display_cell closure.
DisplayCell(cell) ==
    LET content == ReplaceQuotes(cell)
    IN IF Contains(content, Comma)
       THEN <<DoubleQuote>> \o content \o <<DoubleQuote>>
       ELSE content

\* The first cell, then every other cell behind a comma.
RECURSIVE PrintRest(_)
PrintRest(cells) ==
    IF cells = <<>> THEN <<>>
    ELSE <<Comma>> \o DisplayCell(Head(cells)) \o PrintRest(Tail(cells))

PrintLine(line) ==
    IF line = <<>> THEN <<>> ELSE DisplayCell(line[1]) \o PrintRest(Tail(line))

\* One turn of `for line in data`: the cells of the next row, line, and
\* println!().
TableRow(line) ==
    /\ tbl.printed < tbl.rows
    /\ tbl' = [tbl EXCEPT !.line = line, !.out = PrintLine(line),
                          !.printed = @ + 1]
    /\ UNCHANGED <<nl, gaVars, clVars, rdVars>>

\* The closing println!().
TableEnd ==
    /\ tbl.printed = tbl.rows
    /\ ~tbl.done
    /\ tbl' = [tbl EXCEPT !.done = TRUE]
    /\ UNCHANGED <<nl, gaVars, clVars, rdVars>>

\* ------------------------------------------------------------ number_length
\* usize::ilog10: the base 10 logarithm, rounded down (i is not 0).
RECURSIVE Ilog10(_)
Ilog10(i) == IF i < 10 THEN 0 ELSE 1 + Ilog10(i \div 10)

\* Mutation: the logarithm itself.
number_length_Log(i) == IF i = 0 THEN 1 ELSE Ilog10(i)

number_length(i) == IF i = 0 THEN 1 ELSE Ilog10(i) + 1

\* The call number_length(nl.i) returns.
NumberLength ==
    /\ ~nl.done
    /\ nl' = [nl EXCEPT !.result = number_length(nl.i), !.done = TRUE]
    /\ UNCHANGED <<tbl, gaVars, clVars, rdVars>>

\* No call of number_length.
NoNumber == [i |-> 0, result |-> 0, done |-> TRUE]

\* No table being printed.
NoTable == [rows |-> 0, printed |-> 0, line |-> <<>>, out |-> <<>>,
            done |-> TRUE]

TableInit(rows) ==
    /\ tbl = [rows |-> rows, printed |-> 0, line |-> <<>>, out |-> <<>>,
              done |-> FALSE]
    /\ nl = NoNumber

TableIdle == tbl = NoTable /\ nl = NoNumber

\* ------------------------------------------------------------------ inputs
RegionTables == SeqsUpTo(RegionNames \X (1..MaxRegionLen), MaxRegions)

\* Inputs that exercise the region partition: alleles without annotations.
RegionSegments ==
    [start_a : 0..MaxStartA, start_b : 0..MaxLeadB,
     regions : RegionTables, annotations : {<<>>}]

RegionInputs ==
    {als \in SeqsUpTo(RegionSegments, MaxSegs) :
        als # <<>> /\ Len(BuildARegions(als)) <= MaxBoundaries}

ShapePieces ==
    { [match_type |-> "FullIdentity", step_a |-> 1, step_b |-> 1],
      [match_type |-> "Gap", step_a |-> 0, step_b |-> 1],
      [match_type |-> "Gap", step_a |-> 1, step_b |-> 0],
      [match_type |-> "Isobaric", step_a |-> 2, step_b |-> 1] }

\* Annotation tables: (annotation, reference position) in ascending position.
AnnotationTables ==
    {t \in SeqsUpTo({"Conserved"} \X (0..MaxAnnPos), MaxAnnotations) :
        \A i \in 1..Len(t) - 1 : t[i][2] < t[i + 1][2]}

\* Inputs that exercise the annotation transfer: alleles without regions.
AnnotationSegments ==
    [start_a : 0..MaxStartA, start_b : 0..MaxStartB,
     regions : {<<>>}, annotations : AnnotationTables]

AnnotationInputs ==
    {als \in SeqsUpTo(AnnotationSegments, MaxSegs) :
        als # <<>> /\ Len(Concat([i \in 1..Len(als) |-> als[i].annotations]))
                        <= MaxAnnotations}

TypedPieces ==
    { [match_type |-> "FullIdentity", step_a |-> 1, step_b |-> 1],
      [match_type |-> "IdentityMassMismatch", step_a |-> 1, step_b |-> 1],
      [match_type |-> "Mismatch", step_a |-> 1, step_b |-> 1],
      [match_type |-> "Gap", step_a |-> 0, step_b |-> 1] }

NoPiece == [match_type |-> None, step_a |-> 0, step_b |-> 0]

GAInit(als) ==
    /\ alignments = als
    /\ a_regions = BuildARegions(als)
    /\ index_a = 0 /\ index_b = 0 /\ len_a = 0 /\ len_b = 0 /\ offset_a = 0
    /\ last_region = None
    /\ last_index = 0
    /\ regions = <<>>
    /\ annotations = <<>>
    /\ seg = 1
    /\ lead_done = FALSE
    /\ nsteps = 0
    /\ piece = NoPiece
    /\ total_b = 0
    /\ events = <<>>
    /\ local = [a |-> 0, b |-> 0, base_b |-> 0, base_n |-> 0]
    /\ pc = "walk"
    /\ inl = InlineInit(als)

\* The columns the renderer hands to the writer: every column shows a residue
\* or a gap sign on the reference or the query track.
WriterColumns ==
    {col \in [a_name : {"ref"}, n : {" ", "1"}, a : {" ", "A"},
              b : {" ", "B"}, c : {" ", "+"}] :
        ~IsWhitespace(col.a) \/ ~IsWhitespace(col.b)}

CLInit(line_width, only_display_a, omit_headers) ==
    /\ writer = NewWriter(line_width, only_display_a, omit_headers)
    /\ printed = <<>>
    /\ ncols = 0
    /\ wpc = "writing"

\* No writer in use.
CLIdle == CLInit(1, FALSE, FALSE)

\* Nothing being rendered.
RIdle ==
    RInit([start_a |-> 0, start_b |-> 0, path |-> <<>>, imgt |-> NoAllele,
           tail_a |-> 0, tail_b |-> 0,
           context |-> FALSE, room_on_end |-> FALSE])

\* Paths of one-to-one matches with at most one other piece.
Match == [match_type |-> "FullIdentity", step_a |-> 1, step_b |-> 1]

RenderPieces ==
    { [match_type |-> "Gap", step_a |-> 0, step_b |-> 1],
      [match_type |-> "Gap", step_a |-> 1, step_b |-> 0],
      [match_type |-> "Isobaric", step_a |-> 2, step_b |-> 1] }

RenderPaths ==
    {[i \in 1..n |-> Match] : n \in 1..MaxRenderPath}
    \cup {[i \in 1..n |-> IF i = k THEN p ELSE Match] :
              n \in 1..MaxRenderPath, k \in 1..MaxRenderPath, p \in RenderPieces}

\* Lengths of the regions of a rendered allele.
RenderRegionLens == {1, 4, 5}

\* Allele region tables: FR1, CDR1, FR2 in this order.
RenderNames == <<"FR1", "CDR1", "FR2">>

RenderTables ==
    UNION {{[i \in 1..n |-> <<RenderNames[i], l[i]>>] :
               l \in [1..n -> RenderRegionLens]} : n \in 1..3}

RenderAlleles == [table : RenderTables, marks : {"first", "last"}]

RenderInputs ==
    [start_a : 0..MaxStartA, start_b : {0}, path : RenderPaths,
     imgt : RenderAlleles \cup {NoAllele}, tail_a : {0}, tail_b : {0},
     context : {FALSE}, room_on_end : {FALSE}]

\* generate_annotations not running.
GAIdle == GAInit(<<>>)

\* generate_annotations on region inputs.
Init == CLIdle /\ RIdle /\ TableIdle /\ \E als \in RegionInputs : GAInit(als)

Next ==
    \/ GALead
    \/ \E p \in ShapePieces : GAPiece(p)
    \/ GANextSegment
    \/ GAFinish

Spec == Init /\ [][Next]_vars

\* generate_annotations on annotation inputs.
InitAnn == CLIdle /\ RIdle /\ TableIdle /\ \E als \in AnnotationInputs : GAInit(als)

NextAnn ==
    \/ GALead
    \/ \E p \in TypedPieces : GAPiece(p)
    \/ GANextSegment
    \/ GAFinish

SpecAnn == InitAnn /\ [][NextAnn]_vars

\* The line writer under arbitrary columns and the final flush.
InitWriter ==
    /\ GAIdle
    /\ RIdle
    /\ TableIdle
    /\ \E line_width \in 2..MaxWidth, only_display_a, omit_headers \in BOOLEAN :
          CLInit(line_width, only_display_a, omit_headers)

NextWriter ==
    \/ \E col \in WriterColumns : CLAddColumn(col)
    \/ CLFinalFlush

SpecWriter == InitWriter /\ [][NextWriter]_vars

\* The line writer as show_chained_annotated_mass_alignment creates it, for
\* every line width from 1 on; the columns either carry a ruler character and
\* a marker or neither.
BlockColumns == {col \in WriterColumns : (col.n = " ") <=> (col.c = " ")}

InitBlocks ==
    /\ GAIdle
    /\ RIdle
    /\ TableIdle
    /\ \E line_width \in 1..MaxWidth : CLInit(line_width, FALSE, FALSE)

NextBlocks ==
    \/ \E col \in BlockColumns : CLAddColumn(col)
    \/ CLFinalFlush

SpecBlocks == InitBlocks /\ [][NextBlocks]_vars

\* show_annotated_mass_alignment without context: the body of one alignment,
\* then the final flush.
InitRender ==
    /\ GAIdle
    /\ TableIdle
    /\ CLInit(MaxWidth, FALSE, FALSE)
    /\ \E input \in RenderInputs : RInit(input)

NextRender ==
    \/ RBodyStep
    \/ RReturn
    \/ RFinalFlush

SpecRender == InitRender /\ [][NextRender]_vars

\* show_annotated_mass_alignment on short paths over every kind of step.
MarkerPieces ==
    { [match_type |-> "FullIdentity", step_a |-> 1, step_b |-> 1],
      [match_type |-> "IdentityMassMismatch", step_a |-> 1, step_b |-> 1],
      [match_type |-> "Mismatch", step_a |-> 1, step_b |-> 1],
      [match_type |-> "Gap", step_a |-> 0, step_b |-> 1],
      [match_type |-> "Gap", step_a |-> 1, step_b |-> 0],
      [match_type |-> "Isobaric", step_a |-> 1, step_b |-> 1],
      [match_type |-> "Isobaric", step_a |-> 2, step_b |-> 1],
      [match_type |-> "Isobaric", step_a |-> 1, step_b |-> 3],
      [match_type |-> "Rotation", step_a |-> 2, step_b |-> 2] }

MarkerPaths == SeqsUpTo(MarkerPieces, MaxMarkerPath) \ {<<>>}

MarkerInputs ==
    [start_a : {0}, start_b : {0}, path : MarkerPaths, imgt : {NoAllele},
     tail_a : {0}, tail_b : {0}, context : {FALSE}, room_on_end : {FALSE}]

InitMarker ==
    /\ GAIdle
    /\ TableIdle
    /\ CLInit(MaxWidth, FALSE, FALSE)
    /\ \E input \in MarkerInputs : RInit(input)

NextMarker ==
    \/ RBodyStep
    \/ RReturn
    \/ RFinalFlush

SpecMarker == InitMarker /\ [][NextMarker]_vars

\* show_annotated_mass_alignment with and without context on paths that hold
\* a run of insertions between one-to-one steps, long enough for two ticks.
Insertion == [match_type |-> "Gap", step_a |-> 0, step_b |-> 1]

TickPaths ==
    {[i \in 1..(m + k + j) |-> IF i > m /\ i <= m + k THEN Insertion ELSE Match] :
        m \in 0..TickMatches, k \in 0..TickRun, j \in 0..2} \ {<<>>}

TickStartAs == {0, 9, 10}
TickStartBs == {0, 12}
TickTails == {<<0, 0>>, <<2, 0>>, <<0, 3>>}
TickTable == <<<<"FR1", 9>>, <<"CDR1", 5>>>>

TickInputs ==
    {input \in
        [start_a : TickStartAs, start_b : TickStartBs, path : TickPaths,
         imgt : {NoAllele} \cup [table : {TickTable}, marks : {"first", "last"}],
         tail_a : {0, 2}, tail_b : {0, 3}, context : BOOLEAN,
         room_on_end : {FALSE}] :
        /\ <<input.tail_a, input.tail_b>> \in TickTails
        /\ ~input.context => input.tail_a = 0 /\ input.tail_b = 0}

InitTicks ==
    /\ GAIdle
    /\ TableIdle
    /\ CLInit(MaxWidth, FALSE, FALSE)
    /\ \E input \in TickInputs : RInit(input)

NextTicks ==
    \/ RStartColumn
    \/ RBodyStep
    \/ REndColumn
    \/ RReturn
    \/ RFinalFlush

SpecTicks == InitTicks /\ [][NextTicks]_vars

\* show_chained_annotated_mass_alignment on one or two short segments, with
\* and without context.
ChainStartAs == {0, 9}

ChainTables ==
    { <<<<"FR1", 1>>>>, <<<<"CDR1", 1>>>>, <<<<"CDR1", 2>>>>,
      <<<<"FR1", 1>>, <<"CDR1", 1>>>>, <<<<"CDR1", 1>>, <<"FR2", 1>>>>,
      <<<<"FR1", 2>>, <<"CDR1", 1>>>> }

ChainPaths == {[i \in 1..n |-> Match] : n \in 1..MaxChainPath}

ChainTails == {<<0, 0>>, <<1, 0>>, <<0, 2>>}

ChainSegment(start_a, start_b, path, table, marks, tails) ==
    [start_a |-> start_a, start_b |-> start_b, path |-> path,
     imgt |-> [table |-> table, marks |-> marks],
     tail_a |-> tails[1], tail_b |-> tails[2]]

InitChain ==
    /\ GAIdle
    /\ TableIdle
    /\ CLInit(MaxWidth, FALSE, FALSE)
    /\ \E n \in 1..MaxChainSegs, marks \in {"first", "last"},
          context \in BOOLEAN, tails \in ChainTails :
          \E sa \in [1..n -> ChainStartAs], sb \in [1..n -> 0..MaxLeadB],
             paths \in [1..n -> ChainPaths], tables \in [1..n -> ChainTables] :
             /\ ~context => tails = <<0, 0>>
             /\ RChainInit(
                    [i \in 1..n |->
                        ChainSegment(sa[i], sb[i], paths[i], tables[i], marks,
                                     IF i = n THEN tails ELSE <<0, 0>>)],
                    context)

NextChain ==
    \/ RStartColumn
    \/ RBodyStep
    \/ REndColumn
    \/ RReturn
    \/ RChainNext
    \/ RFinalFlush

SpecChain == InitChain /\ [][NextChain]_vars

\* generate_annotations on chains of three short segments, where a segment
\* without regions of its own puts two nameless boundaries next to each other.
NameTables == {<<>>, <<<<"FR1", 1>>>>}

NameSegments ==
    [start_a : 0..MaxStartA, start_b : 0..MaxLeadB,
     regions : NameTables, annotations : {<<>>}]

NameInputs == [1..NameSegs -> NameSegments]

NamePieces == {Match}

InitNames == CLIdle /\ RIdle /\ TableIdle /\ \E als \in NameInputs : GAInit(als)

NextNames ==
    \/ GALead
    \/ \E p \in NamePieces : GAPiece(p)
    \/ GANextSegment
    \/ GAFinish

SpecNames == InitNames /\ [][NextNames]_vars

\* generate_annotations on one segment whose path may hold a step that
\* advances neither sequence.
ZeroPiece == [match_type |-> "Gap", step_a |-> 0, step_b |-> 0]

MalformedPieces == TypedPieces \cup {ZeroPiece}

MalformedInputs == {als \in AnnotationInputs : Len(als) = 1}

InitMalformed == CLIdle /\ RIdle /\ TableIdle /\ \E als \in MalformedInputs : GAInit(als)

NextMalformed ==
    \/ GALead
    \/ \E p \in MalformedPieces : GAPiece(p)
    \/ GAFinish

SpecMalformed == InitMalformed /\ [][NextMalformed]_vars

\* table in CSV mode on data of up to MaxRows rows of TableColumns cells.
CellChars == {"a", Comma, DoubleQuote}

Cells == SeqsUpTo(CellChars, MaxCellLen)

TableColumns == 2

TableLines == [1..TableColumns -> Cells]

InitTable ==
    /\ GAIdle
    /\ CLIdle
    /\ RIdle
    /\ \E rows \in 1..MaxRows : TableInit(rows)

NextTable ==
    \/ \E line \in TableLines : TableRow(line)
    \/ TableEnd

SpecTable == InitTable /\ [][NextTable]_vars

\* generate_annotations on one segment that starts at the first query residue
\* (start_b = 0) and whose path holds one-to-one steps only; the allele's
\* regions carry different names.
AttrTables ==
    {t \in RegionTables : \A i, j \in 1..Len(t) : t[i][1] = t[j][1] => i = j}

AttrSegments ==
    [start_a : 0..MaxStartA, start_b : {0}, regions : AttrTables,
     annotations : {<<>>}]

AttrInputs == [1..1 -> AttrSegments]

AttrPieces == {Match}

InitAttr == CLIdle /\ RIdle /\ TableIdle /\ \E als \in AttrInputs : GAInit(als)

NextAttr ==
    \/ \E p \in AttrPieces : GAPiece(p)
    \/ GAFinish

SpecAttr == InitAttr /\ [][NextAttr]_vars

\* generate_annotations on one segment that may start further into the
\* reference; the allele's annotations carry different names.
DupTables ==
    {<<>>}
    \cup {<<<<"Conserved", p>>>> : p \in 0..DupAnnPos}
    \cup {<<<<"Conserved", p>>, <<"NGlycan", q>>>> :
              p \in 0..DupAnnPos, q \in 0..DupAnnPos}

DupSegments ==
    [start_a : 0..DupStartA, start_b : 0..MaxLeadB, regions : {<<>>},
     annotations : DupTables]

DupInputs == [1..1 -> DupSegments]

InitDup == CLIdle /\ RIdle /\ TableIdle /\ \E als \in DupInputs : GAInit(als)

NextDup ==
    \/ GALead
    \/ \E p \in TypedPieces : GAPiece(p)
    \/ GAFinish

SpecDup == InitDup /\ [][NextDup]_vars

\* number_length applied to every number up to MaxNumber.
InitLen ==
    /\ GAIdle
    /\ CLIdle
    /\ RIdle
    /\ tbl = NoTable
    /\ \E i \in 0..MaxNumber : nl = [i |-> i, result |-> 0, done |-> FALSE]

NextLen == NumberLength

SpecLen == InitLen /\ [][NextLen]_vars

\* ------------------------------------------------------------------ claims
\* Events grouped into runs of equal resolved region: what merging adjacent
\* equal names must produce.
RunStart(i) == i = 1 \/ events[i].region # events[i - 1].region
RunOf(i) == Cardinality({j \in 1..i : RunStart(j)})
RunLength(e) ==
    LET F[i \in 0..Len(events)] ==
            IF i = 0 THEN 0
            ELSE F[i - 1] + (IF RunOf(i) = e THEN events[i].len ELSE 0)
    IN F[Len(events)]

\* C1 (as claimed): when generate_annotations returns, the lengths of the
\* region entries add up to the step_b of every piece walked, the synthetic
\* leading pieces included. Stated for alleles that have regions.
C1_LengthConservation ==
    (pc = "done" /\ \A i \in 1..Len(alignments) : alignments[i].regions # <<>>)
        => SumLengths(regions) = total_b

\* C2: no two adjacent region entries carry the same name, and a boundary
\* resolved to the name of the last entry extends that entry by the pending
\* len_b instead of appending, in the walk and in the final flush.
C2_NoAdjacentEqual ==
    \A i \in 1..Len(regions) - 1 : regions[i][1] # regions[i + 1][1]

C2_ExtendStep ==
    (events' # events /\ regions # <<>> /\ Last(events').region = Last(regions)[1])
        => /\ Len(regions') = Len(regions)
           /\ Front(regions') = Front(regions)
           /\ Last(regions') =
                <<Last(regions)[1], Last(regions)[2] + Last(events').len>>

C2_Merge == [](C2_NoAdjacentEqual) /\ [][C2_ExtendStep]_vars

C2_Witness ==
    /\ pc = "done"
    /\ \E i \in 2..Len(events) :
          /\ events[i].region = events[i - 1].region
          /\ events[i].len > 0 /\ events[i - 1].len > 0
          /\ events[i].walking # 0
    /\ Last(events).walking = 0
    /\ Len(events) >= 3
    /\ Last(events).region = events[Len(events) - 1].region

\* C3: the annotation list grows only in a step whose match type is
\* FullIdentity or IdentityMassMismatch; a step of any other type leaves it
\* as it was, whatever reference position it reaches.
C3_GateStep ==
    annotations' # annotations =>
        piece'.match_type \in {"FullIdentity", "IdentityMassMismatch"}

C3_AnnotationGating == [][C3_GateStep]_vars

\* The reference position the last piece is compared with, segment-local.
ComparedPosition == index_a - offset_a + piece.step_a

AnnotatedPositions(i) ==
    {alignments[i].annotations[k][2] : k \in 1..Len(alignments[i].annotations)}

C3_Witness ==
    /\ piece.match_type = "Mismatch"
    /\ ComparedPosition \in AnnotatedPositions(seg)
    /\ Len(annotations) = 1
    /\ nsteps = 2

\* C4 (as claimed): the annotation list is non-decreasing in query position.
C4_Ordered ==
    \A i \in 1..Len(annotations) - 1 : annotations[i][2] <= annotations[i + 1][2]

\* C5 (as claimed): a region split over segments k and k+1 (the last
\* boundary resolved while walking k, then at most the nameless leading
\* boundary of k+1, then the first named boundary of k+1, same name) ends up
\* in one entry whose length is the sum of the parts; every entry is the sum
\* of its run.
SplitPair(i, j) ==
    /\ i < j /\ j <= Len(events)
    /\ events[i].walking \in 1..(Len(alignments) - 1)
    /\ events[i + 1].walking # events[i].walking
    /\ events[j].name # None
    /\ events[j].owner = events[i].walking + 1
    /\ events[j].name = events[i].region
    /\ \A m \in (i + 1)..(j - 1) :
          events[m].name = None /\ events[m].owner = events[j].owner

C5_ChainingContinuity ==
    /\ Len(regions) = (IF events = <<>> THEN 0 ELSE RunOf(Len(events)))
    /\ \A e \in 1..Len(regions) : regions[e][2] = RunLength(e)
    /\ \A i \in 1..Len(events) : regions[RunOf(i)][1] = events[i].region
    /\ \A i, j \in 1..Len(events) : SplitPair(i, j) => RunOf(i) = RunOf(j)

Range(f) == {f[i] : i \in DOMAIN f}
CeilDiv(n, w) == (n + w - 1) \div w

\* C7 (as claimed): N >= 1 columns followed by the final flush print exactly
\* ceil(N/W) blocks, all of W columns but the last, which holds the rest.
\* Stated for writers that print the ruler line, so that every flush prints.
C7_Wrapping ==
    (wpc = "done" /\ ncols >= 1 /\ ~writer.omit_headers) =>
        LET k == CeilDiv(ncols, writer.line_width)
        IN /\ Len(printed) = k
           /\ \A i \in 1..(k - 1) : printed[i].cols = writer.line_width
           /\ printed[k].cols = ncols - writer.line_width * (k - 1)

\* C9 (as claimed): flush prints each of the four tracks only if the track
\* received a non-whitespace character since the previous flush, and never
\* the query or marker track in reference-only mode. Stated for the flushes
\* of a block that holds columns.
C9_OnlyWithContent ==
    \A i \in 1..Len(printed) : printed[i].cols > 0 =>
        /\ \A t \in Range(printed[i].tracks) : t \in printed[i].content
        /\ writer.only_display_a =>
              Range(printed[i].tracks) \cap {"query", "marker"} = {}

\* ------------------------------------------------------------------- C8
RegionLabels == {i \in 1..Len(labels) : labels[i].kind = "region"}

\* C8 (label priority): when the header is evaluated for a step where a
\* region label is started and (a + number_shift_back) % 10 = 0 holds as well,
\* no numeric tick is started at that step, and the ruler column of the step
\* shows the first character of the region label.
C8_LabelPriority ==
    (hdr.region_started /\ hdr.tick_cond) =>
        /\ ~hdr.tick_started
        /\ labels # <<>>
        /\ LET l == Last(labels)
           IN /\ l.kind = "region"
              /\ l.name = hdr.region
              /\ ruler[l.col].ch = l.text[1]
              /\ l.text[1] \in {NameChars(l.name)[1], Last(NameChars(l.name))}
              /\ (~l.compressed => l.text[1] = NameChars(l.name)[1])

\* A region label became due exactly where a numeric tick was due.
C8_Witness ==
    /\ hdr.region_started
    /\ hdr.tick_cond
    /\ ruler # <<>>
    /\ ruler[Last(labels).col].ch = NameChars(hdr.region)[1]

\* ------------------------------------------------------------------ C10
\* The last ruler column of region r, once a later region has been shown.
Concluded(r) ==
    \E c \in 1..Len(ruler) :
        ruler[c].region = r /\ \E d \in (c + 1)..Len(ruler) : ruler[d].region # r

LastColumnOf(r) ==
    CHOOSE c \in 1..Len(ruler) :
        ruler[c].region = r /\ \A d \in (c + 1)..Len(ruler) : ruler[d].region # r

ColumnsOf(r) == {c \in 1..Len(ruler) : ruler[c].region = r}

\* C10 as stated: the name of a started region label occupies the ruler
\* columns that end at the last column of its region (its last character is
\* in that column, so the name does not reach into the next region), for a
\* region that has room for its name.
C10_EndsAtBoundary ==
    \A i \in RegionLabels :
        LET l == labels[i]
            name == NameChars(l.name)
        IN (/\ ~l.compressed
            /\ Concluded(l.name)
            /\ Cardinality(ColumnsOf(l.name)) >= Len(name)) =>
               LET e == LastColumnOf(l.name)
               IN /\ e >= Len(name)
                  /\ \A k \in 1..Len(name) :
                         ruler[e - Len(name) + k].ch = name[k]

\* C10 (ruler label placement, as the code has it): a started region label
\* begins in the first column of the step at which it is started and is
\* written from there left to right, one character per column: the name in
\* reading order, then one blank, as far as the path has columns.
C10_StartsAtStep ==
    \A i \in RegionLabels :
        LET l == labels[i]
            text == NameChars(l.name) \o <<" ">>
        IN /\ l.col <= Len(ruler)
           /\ ruler[l.col].step = l.step
           /\ (l.col > 1 => ruler[l.col - 1].step # l.step)
           /\ ~l.compressed =>
                 \A k \in 1..Len(text) :
                     (l.col + k - 1 <= Len(ruler)) =>
                         ruler[l.col + k - 1].ch = text[k]

\* A whole name was written inside a region that is longer than the name,
\* and the region has concluded.
C10_Witness ==
    \E i \in RegionLabels :
        LET l == labels[i]
            name == NameChars(l.name)
        IN /\ ~l.compressed
           /\ Concluded(l.name)
           /\ l.col + Len(name) <= Len(ruler)
           /\ \A k \in 1..Len(name) :
                  /\ ruler[l.col + k - 1].ch = name[k]
                  /\ ruler[l.col + k - 1].region = l.name
           /\ LastColumnOf(l.name) > l.col + Len(name) - 1


\* ------------------------------------------------------------------ C18
\* C18 (as claimed): once a step has been processed, no pending boundary has
\* a threshold <= len_a: every boundary the step reached was resolved in it.
\* Stated for alleles whose regions carry pairwise different names.
DistinctNames(al) ==
    \A i, j \in 1..Len(al.regions) :
        i # j => al.regions[i][1] # al.regions[j][1]

C18_Exhaustive ==
    (/\ last_index # 0
     /\ pc = "walk"
     /\ \A i \in 1..Len(alignments) : DistinctNames(alignments[i]))
        => ~BoundaryDue(a_regions, len_a)

\* ------------------------------------------------------------------ C19
\* C19 (as claimed): a resolved boundary with a name yields that name; a
\* boundary without a name yields the region resolved immediately before it,
\* and "Unknown" only when nothing was resolved before it.
C19_NameResolution ==
    \A i \in 1..Len(events) :
        IF events[i].name # None THEN events[i].region = events[i].name
        ELSE IF i = 1 THEN events[i].region = Unknown
        ELSE events[i].region = events[i - 1].region

\* ------------------------------------------------------------------ C17
\* C17 (as claimed): a step with step_a = 0 and step_b = 0 stops
\* generate_annotations on an assertion: once such a step has been handed to
\* the loop the call is neither walking on nor returning a result.
C17_ZeroStepAsserted ==
    (piece = ZeroPiece) => pc \notin {"walk", "done"}

\* ------------------------------------------------------------------ C20
\* A piece of the current segment was handed to the loop in this step.
PieceStep == seg' = seg /\ (nsteps' # nsteps \/ lead_done' # lead_done)

\* What a piece emits when its segment is looked at on its own: the entries of
\* the segment's own table at the reference position local_a + step_a, in
\* table order.
OwnHits(table, local_a, p, position) ==
    LET hits == {i \in 1..Len(table) : table[i][2] = local_a + p.step_a}
        F[i \in 0..Len(table)] ==
            IF i = 0 THEN <<>>
            ELSE IF i \in hits THEN Append(F[i - 1], <<table[i][1], position>>)
                 ELSE F[i - 1]
    IN IF p.match_type \in {"FullIdentity", "IdentityMassMismatch"}
       THEN F[Len(table)] ELSE <<>>

\* C20 (segment-local projection): what a step emits is decided by the
\* annotation table of its own segment and by the reference length the
\* segment's own steps consumed, whatever the preceding segments consumed;
\* the emitted query position is the segment-local one shifted by the query
\* length consumed before the segment.
C20_Step ==
    PieceStep =>
        annotations' = annotations \o
            OwnHits(alignments[seg].annotations, local'.a, piece',
                    local.base_b + local'.b + piece'.step_b)

C20_SegmentLocal == [][C20_Step]_vars

\* A step of the second segment emitted an annotation after the first segment
\* consumed reference and query length.
C20_Witness ==
    /\ seg = 2
    /\ offset_a > 0
    /\ local.base_b > 0
    /\ Len(annotations) > local.base_n

\* ------------------------------------------------------------------ C11
\* The label of a region with fewer than 5 reference columns left: the first
\* and the last character of the name, the last one only for 1 column.
Abbreviated(name, remaining) ==
    IF remaining <= 1 THEN <<Last(NameChars(name))>>
    ELSE <<NameChars(name)[1], Last(NameChars(name))>>

NonBlank(text) == SelectSeq(text, LAMBDA ch : ch # " ")

\* C11 (as claimed): without room on the end, a region label that becomes
\* due with fewer than 5 reference columns left is shortened as above, and
\* every character of it has its ruler column when the segment is finished.
C11_Abbreviation ==
    \A i \in RegionLabels :
        LET l == labels[i]
        IN (~shown.room_on_end /\ l.remaining < 5) =>
               /\ NonBlank(l.text) = Abbreviated(l.name, l.remaining)
               /\ inner.phase = "returned" =>
                      /\ l.col + Len(NonBlank(l.text)) - 1 <= Len(ruler)
                      /\ \A k \in 1..Len(NonBlank(l.text)) :
                             ruler[l.col + k - 1].ch = l.text[k]

\* ------------------------------------------------------------------ C12
NumberLabels == {i \in 1..Len(labels) : labels[i].kind = "number"}

OneToOne(path) ==
    \A i \in 1..Len(path) : path[i].step_a = 1 /\ path[i].step_b = 1

\* C12 (as claimed): without region labels, on a path of one-to-one steps
\* that starts at reference position 0, every multiple of 10 up to the
\* aligned length has exactly one tick, whose last digit stands in the column
\* of that residue.
C12_RightAlignedTicks ==
    (/\ inner.phase = "returned"
     /\ shown.imgt = NoAllele
     /\ shown.start_a = 0
     /\ OneToOne(shown.path)) =>
        \A t \in {n \in 1..Len(shown.path) : n % NUMBER_GAP = 0} :
            LET digits == UsizeToString(t)
            IN /\ Cardinality({i \in NumberLabels : labels[i].value = t}) = 1
               /\ \A d \in 1..Len(digits) :
                      ruler[t - Len(digits) + d].ch = digits[d]

\* ------------------------------------------------------------------ C13
ContextColumns == {c \in 1..Len(ruler) : ruler[c].part \in {"start", "end"}}

Plain(c) ==
    /\ ruler[c].dimmed
    /\ ruler[c].marker = " "
    /\ ruler[c].fg = None
    /\ ruler[c].bg = None

\* C13 as stated: every column of the start context and of the end context,
\* in single and in chained rendering, is dimmed, has a blank marker and
\* carries no region colour.
C13_ContextPlain == \A c \in ContextColumns : Plain(c)

\* The region labelled last before segment k of a chain, None if there is none.
LabelledBefore(k) ==
    LET earlier == {i \in RegionLabels : labels[i].seg < k}
    IN IF earlier = {} THEN None
       ELSE labels[CHOOSE i \in earlier : \A j \in earlier : j <= i].name

\* C13 (context columns, as the code has them): every context column has a
\* blank marker. The end context, and the start context of a call without a
\* start_context_override (single rendering, and a chained segment before
\* which no region was labelled) are dimmed and carry no region colour. The
\* start context of a chained segment that is handed the last labelled region
\* of the segments before it is not dimmed and carries the foreground and
\* background colour of that region.
C13_ContextStyle ==
    \A c \in ContextColumns :
        LET handed == IF ruler[c].part = "start"
                      THEN LabelledBefore(ruler[c].seg) ELSE None
        IN /\ ruler[c].marker = " "
           /\ handed = None => Plain(c)
           /\ handed # None =>
                  /\ ~ruler[c].dimmed
                  /\ ruler[c].fg = FgColor(handed)
                  /\ ruler[c].bg = BgColor(handed)

\* A chained segment showed its start context in the colours of CDR1, and an
\* end context was shown.
C13_Witness ==
    /\ \E c \in ContextColumns :
          /\ ruler[c].part = "start"
          /\ ruler[c].seg = 2
          /\ ruler[c].bg = "Red"
          /\ ~ruler[c].dimmed
    /\ \E c \in ContextColumns : ruler[c].part = "end" /\ Plain(c)

\* ------------------------------------------------------------------ C14
\* The region labels in the order they were started.
RegionLabelNames ==
    LET F[i \in 0..Len(labels)] ==
            IF i = 0 THEN <<>>
            ELSE IF labels[i].kind = "region" THEN Append(F[i - 1], labels[i].name)
                 ELSE F[i - 1]
    IN F[Len(labels)]

\* C14 (regions merge across segments): the region labels of a chained
\* report never show the same region twice in a row, within a segment and
\* across a segment join.
C14_NoRepeatedLabel ==
    \A i \in 1..Len(RegionLabelNames) - 1 :
        RegionLabelNames[i] # RegionLabelNames[i + 1]

\* The second segment met the flagged position of the region that the first
\* segment labelled last, with nothing pending, and started no label.
C14_Witness ==
    /\ chain.k = 2
    /\ hdr.same_region
    /\ ~hdr.region_started
    /\ LabelledBefore(2) # None
    /\ inner.last_region = LabelledBefore(2)
    /\ \A i \in RegionLabels : labels[i].seg < 2

\* ------------------------------------------------------------------ C15
\* C15 (as claimed): the tick values of a chained report go on across a
\* segment join: every tick of a later segment is larger than every tick of
\* an earlier one.
C15_TicksContinue ==
    \A i, j \in NumberLabels :
        labels[i].seg < labels[j].seg => labels[i].value < labels[j].value

\* ------------------------------------------------------------------ C16
\* Cutting a printed line at the commas outside of wrapped cells.
RECURSIVE SplitCells(_, _, _)
SplitCells(line, current, wrapped) ==
    IF line = <<>> THEN <<current>>
    ELSE IF Head(line) = Comma /\ ~wrapped
         THEN <<current>> \o SplitCells(Tail(line), <<>>, FALSE)
         ELSE SplitCells(Tail(line), Append(current, Head(line)),
                         IF Head(line) = DoubleQuote THEN ~wrapped ELSE wrapped)

IsWrapped(shown_cell) ==
    /\ Len(shown_cell) >= 2
    /\ Head(shown_cell) = DoubleQuote
    /\ Last(shown_cell) = DoubleQuote

Unwrapped(shown_cell) ==
    IF IsWrapped(shown_cell) THEN SubSeq(shown_cell, 2, Len(shown_cell) - 1)
    ELSE shown_cell

\* C16 (CSV mode of table): every printed row holds its cells in order,
\* separated by single commas; a cell is wrapped in double quotes if and only
\* if it holds a comma; inside, every double quote of the cell is a single
\* quote and every other character is unchanged, so a printed cell holds a
\* double quote only as the first and last character of a wrapped cell.
C16_CsvCells ==
    tbl.printed > 0 =>
        LET cells == tbl.line
            printed_cells == SplitCells(tbl.out, <<>>, FALSE)
        IN /\ Len(printed_cells) = Len(cells)
           /\ \A c \in 1..Len(cells) :
                  LET p == printed_cells[c]
                      inside == Unwrapped(p)
                  IN /\ IsWrapped(p) <=> Contains(cells[c], Comma)
                     /\ ~Contains(inside, DoubleQuote)
                     /\ Len(inside) = Len(cells[c])
                     /\ \A i \in 1..Len(inside) :
                            inside[i] = IF cells[c][i] = DoubleQuote
                                        THEN SingleQuote ELSE cells[c][i]

\* A row was printed with a cell holding a comma and a double quote next to
\* a cell without comma.
C16_Witness ==
    /\ tbl.printed > 0
    /\ Contains(tbl.line[1], Comma)
    /\ Contains(tbl.line[1], DoubleQuote)
    /\ ~Contains(tbl.line[2], Comma)
    /\ tbl.line[2] # <<>>
    /\ IsWrapped(SplitCells(tbl.out, <<>>, FALSE)[1])

\* ---- C24 ----
RECURSIVE Pow10(_)
Pow10(n) == IF n = 0 THEN 1 ELSE 10 * Pow10(n - 1)

\* C24: number_length(i) is the number of decimal digits of i, that is the
\* d with 10^(d-1) <= i < 10^d, and number_length(0) is 1.
C24_DigitCount ==
    nl.done /\ nl # NoNumber =>
        IF nl.i = 0 THEN nl.result = 1
        ELSE /\ nl.result >= 1
             /\ Pow10(nl.result - 1) <= nl.i
             /\ nl.i < Pow10(nl.result)

\* number_length returned 4 for 1000, the first number of four digits.
C24_Witness == nl.done /\ nl.i = 1000 /\ nl.result = 4

\* ---- C27 ----
\* C27: the region list show_chained_annotated_mass_alignment computes for its
\* REGIONS= line is the list generate_annotations returns for the same
\* segments.
C27_SameRegions == pc = "done" => inl.regions = regions

\* Two segments were walked to the end, entries were merged and more than one
\* entry is reported.
C27_Witness ==
    /\ pc = "done"
    /\ Len(alignments) = 2
    /\ Len(regions) >= 2
    /\ Len(events) > Len(regions)

\* ---- C25 ----
\* The region of the table that holds reference residue p (counted from 1).
RegionAt(table, p) ==
    LET upto(k) == SumLengths(SubSeq(table, 1, k))
        ks == {k \in 1..Len(table) : upto(k - 1) < p /\ p <= upto(k)}
    IN  IF ks = {} THEN None ELSE table[CHOOSE k \in ks : TRUE][1]

\* The query length reported under a name.
Reported(name) ==
    SumLengths([i \in 1..Len(regions) |->
                   <<name, IF regions[i][1] = name THEN regions[i][2] ELSE 0>>])

\* The query residues of the walked one-to-one path whose reference residue
\* lies in the region: step k aligns reference residue start_a + k.
AlignedTo(name) ==
    Cardinality({k \in 1..nsteps :
        RegionAt(alignments[1].regions, alignments[1].start_a + k) = name})

\* C25: for one segment of one-to-one steps with start_b = 0, the length
\* reported for each region is the number of query residues aligned to
\* reference residues of that region, whatever start_a is.
C25_Attribution ==
    pc = "done" =>
        \A i \in 1..Len(alignments[1].regions) :
            Reported(alignments[1].regions[i][1])
                = AlignedTo(alignments[1].regions[i][1])

\* The same for the alignments that start at the first reference residue.
C25_FromFirstResidue ==
    pc = "done" /\ alignments[1].start_a = 0 =>
        \A i \in 1..Len(alignments[1].regions) :
            Reported(alignments[1].regions[i][1])
                = AlignedTo(alignments[1].regions[i][1])

\* ---- C26 ----
\* How often the annotation of that name was transferred.
Transferred(name) ==
    Cardinality({i \in 1..Len(annotations) : annotations[i][1] = name})

\* C26: every annotation of a segment is transferred at most once: no two
\* pieces of the segment, its leading piece included, match the same
\* annotation position.
C26_AtMostOnce ==
    \A i \in 1..Len(alignments[1].annotations) :
        Transferred(alignments[1].annotations[i][1]) <= 1

\* ---- C28 ----
\* The columns of the blocks printed so far.
RECURSIVE PrintedColumns(_)
PrintedColumns(out) ==
    IF out = <<>> THEN 0 ELSE Head(out).cols + PrintedColumns(Tail(out))

\* chars counts the columns added since the last flush and stays below the
\* line width.
C28_Buffer ==
    /\ writer.chars = ncols - PrintedColumns(printed)
    /\ 0 <= writer.chars /\ writer.chars < writer.line_width
    /\ writer.lines = Len(printed)

\* add_column flushes exactly when it adds the W-th column of a block, and
\* every flush leaves the buffers empty, the content flags false, the name
\* set empty and one line block more.
C28_Flush ==
    /\ ncols' = ncols + 1 =>
          (printed' # printed <=> writer.chars + 1 = writer.line_width)
    /\ printed' # printed =>
          /\ Len(printed') = Len(printed) + 1
          /\ writer'.numbers = <<>> /\ writer'.a = <<>>
          /\ writer'.b = <<>> /\ writer'.marker = <<>>
          /\ ~writer'.a_content /\ ~writer'.b_content /\ ~writer'.marker_content
          /\ writer'.a_names = {}
          /\ writer'.lines = writer.lines + 1

\* C28: for a line width W >= 1, chars is the number of columns added since
\* the last flush with 0 <= chars < W; add_column flushes exactly when the
\* W-th column of a block is added; after every flush the four track buffers
\* are empty, the three content flags false, the name set empty, and lines
\* has grown by one.
C28_LineBuffer == []C28_Buffer /\ [][C28_Flush]_vars

\* add_column flushed two full blocks and a third block holds a column.
C28_Witness ==
    /\ wpc = "writing"
    /\ writer.line_width >= 2
    /\ Len(printed) = 2
    /\ writer.chars = 1
    /\ writer.a_names # {}

\* ---- C21 ----
\* The columns of one step: the larger of its two step sizes.
StepColumns(step) ==
    IF step.step_a >= step.step_b THEN step.step_a ELSE step.step_b

\* The columns of the first n steps of a path.
RECURSIVE PathColumns(_, _)
PathColumns(path, n) ==
    IF n = 0 THEN 0 ELSE PathColumns(path, n - 1) + StepColumns(path[n])

\* C21: every body step adds exactly max(step_a, step_b) columns and every
\* column adds one character to each of the four tracks: the four buffers
\* always hold the same number of columns, and the columns written for the
\* steps walked so far (printed or buffered) are the sum of max(step_a,
\* step_b) over these steps.
C21_ColumnExpansion ==
    /\ Len(writer.numbers) = writer.chars
    /\ Len(writer.a) = writer.chars
    /\ Len(writer.b) = writer.chars
    /\ Len(writer.marker) = writer.chars
    /\ wpc = "writing" =>
          PrintedColumns(printed) + writer.chars
              = PathColumns(shown.path, inner.index - 1)
    /\ Len(ruler) = PathColumns(shown.path, inner.index - 1)

\* A whole body with a step of two columns was written, across a line break.
C21_Witness ==
    /\ inner.phase = "returned"
    /\ wpc = "writing"
    /\ \E i \in 1..Len(shown.path) :
          shown.path[i].step_a = 2 /\ shown.path[i].step_b = 1
    /\ Len(printed) >= 2
    /\ writer.chars > 0

\* ---- C22 ----
\* The step a body column was written for.
StepOf(c) == shown.path[ruler[c].step]

\* The marker glyphs of a special step.
SpecialGlyphs == {"~", "<", ">"}

\* C22 (as claimed): every column of a step that preserves residue identity
\* (FullIdentity or IdentityMassMismatch) shows ' ', every column of a
\* Mismatch step the mismatch glyph, every column of a one-residue gap step
\* '+', and every column of an Isobaric step a special glyph.
C22_Markers ==
    \A c \in 1..Len(ruler) :
        LET step == StepOf(c)
            m == ruler[c].marker
        IN /\ step.match_type \in {"FullIdentity", "IdentityMassMismatch"}
                => m = " "
           /\ step.match_type = "Mismatch" => m = "x"
           /\ step.match_type = "Gap" /\ step.step_a + step.step_b = 1
                => m = "+"
           /\ step.match_type = "Isobaric" => m \in SpecialGlyphs

\* C22 (amended): a FullIdentity step shows ' ' and an IdentityMassMismatch
\* step 'm'; the rest as claimed.
C22_MarkersByType ==
    \A c \in 1..Len(ruler) :
        LET step == StepOf(c)
            m == ruler[c].marker
        IN /\ step.match_type = "FullIdentity" => m = " "
           /\ step.match_type = "IdentityMassMismatch" => m = "m"
           /\ step.match_type = "Mismatch" => m = "x"
           /\ step.match_type = "Gap" /\ step.step_a + step.step_b = 1
                => m = "+"
           /\ step.match_type = "Isobaric" => m \in SpecialGlyphs

\* A path of a mass mismatch, a one-to-one isobaric step and a gap was written.
C22_Witness ==
    /\ inner.phase = "returned"
    /\ Len(shown.path) = 3
    /\ shown.path[1].match_type = "IdentityMassMismatch"
    /\ shown.path[2].match_type = "Isobaric" /\ shown.path[2].step_a = 1
    /\ shown.path[2].step_b = 1
    /\ shown.path[3].match_type = "Gap"
    /\ Len(ruler) = 3

\* ---- C23 ----
\* A step started a label.
LabelStarted == Len(labels') = Len(labels) + 1

\* The text still to be emitted when the step writes its columns, in reading
\* order: the label just started, else what was pending before the step.
PendingText ==
    IF LabelStarted THEN labels'[Len(labels')].text
    ELSE Reverse(inner.number_tail)

\* C23: a label is started only when the label buffer is empty; the columns a
\* step writes consume the pending text one character per column in reading
\* order, what is left stays pending unchanged, and once the text is
\* exhausted the columns are blank.
C23_Step ==
    LET n == Len(ruler') - Len(ruler)
        pending == PendingText
    IN  /\ Len(labels') \in {Len(labels), Len(labels) + 1}
        /\ LabelStarted => inner.number_tail = <<>>
        /\ \A s \in 1..n :
              ruler'[Len(ruler) + s].ch
                  = IF s <= Len(pending) THEN pending[s] ELSE " "
        /\ Reverse(inner'.number_tail)
              = IF n >= Len(pending) THEN <<>>
                ELSE SubSeq(pending, n + 1, Len(pending))

C23_LabelMachine == [][C23_Step]_vars

\* A region label and a tick were emitted one after the other, the tick
\* started on a step of two columns, and the buffer was empty again when the
\* call returned.
C23_Witness ==
    /\ Len(labels) >= 2
    /\ labels[1].kind = "region"
    /\ \E i \in 1..Len(labels) :
          /\ labels[i].kind = "number"
          /\ StepColumns(shown.path[labels[i].step]) = 2
    /\ inner.number_tail = <<>>
    /\ inner.phase = "returned"

\* ---- C30 ----
\* The step is a turn of the loop over the path.
BodyStep == inner.phase = "body" /\ inner'.index = inner.index + 1

\* What the region lookup returns for the reference position the step reaches.
StepRegion ==
    GetRegion(shown.imgt, inner.a + shown.path[inner.index].step_a)

\* The lookup flags the position and the region is not the one labelled last.
LabelDue ==
    /\ StepRegion # NoRegion
    /\ StepRegion[2]
    /\ StepRegion[1] # inner.last_region

\* The step started the label of the region the lookup returned.
RegionLabelStarted ==
    /\ Len(labels') = Len(labels) + 1
    /\ labels'[Len(labels')].kind = "region"
    /\ labels'[Len(labels')].name = StepRegion[1]
    /\ labels'[Len(labels')].step = inner.index

\* C30 (as claimed): every body step at which a region label is due starts
\* that label, whatever the label buffer holds at that moment.
C30_NoLabelLost == [][BodyStep /\ LabelDue => RegionLabelStarted]_vars

\* C30 (amended): a body step starts the region label exactly when the label
\* is due and the label buffer is empty; a step at which the buffer still
\* holds text starts no label and leaves the region labelled last unchanged.
C30_Step ==
    BodyStep =>
        /\ RegionLabelStarted <=> (LabelDue /\ inner.number_tail = <<>>)
        /\ inner.number_tail # <<>> =>
              /\ labels' = labels
              /\ inner'.last_region = inner.last_region

C30_LabelWhenIdle == [][C30_Step]_vars

\* A path of one-to-one steps ran through CDR1 into FR2; the label of FR1 was
\* written and no label of CDR1, whose position fell under the label of FR1.
C30_Witness ==
    /\ inner.phase = "returned"
    /\ \A i \in 1..Len(shown.path) : shown.path[i] = Match
    /\ \E c \in 1..Len(ruler) : ruler[c].region = "CDR1"
    /\ \E c \in 1..Len(ruler) : ruler[c].region = "FR2"
    /\ \E i \in 1..Len(labels) : labels[i].name = "FR1"
    /\ \A i \in 1..Len(labels) : labels[i].name # "CDR1"

\* ---- C29 ----
\* The labels that are ticks, by their place in the order of starting.
Ticks == {i \in 1..Len(labels) : labels[i].kind = "number"}

\* C29: within one call the tick values started are positive multiples of 10
\* and strictly increasing, so no tick value is started twice; that holds
\* through runs of insertions and context columns without reference residue.
C29_TicksIncrease ==
    /\ \A i \in Ticks :
          labels[i].value > 0 /\ labels[i].value % 10 = 0
    /\ \A i, j \in Ticks : i < j => labels[i].value < labels[j].value

\* The ticks 10 and 20 were started, 20 on the first of three insertions in a
\* row, and the end context held columns without reference residue.
C29_Witness ==
    /\ inner.phase = "returned"
    /\ shown.context /\ shown.tail_b > shown.tail_a
    /\ \E i, j \in Ticks :
          /\ labels[i].value = 10 /\ labels[j].value = 20
          /\ labels[j].part = "body"
          /\ labels[j].step + 2 <= Len(shown.path)
          /\ \A n \in 0..2 : shown.path[labels[j].step + n] = Insertion

====
